---- MODULE Spec2Model ----
(***************************************************************************)
(* Model of the encrypted, capacity-bounded clipboard item store of Pano   *)
(* (src/internal/storage/crypto.go: Encrypt, Decrypt and type Database).   *)
(*                                                                         *)
(* One Database instance is modelled.  Every exported method of Database   *)
(* holds db.mu exclusively (mutations) or shared (queries) for its whole   *)
(* body.  Spec has one atomic action per method, called by one caller at a *)
(* time.  ConcSpec has the callers of the program, the polling goroutines  *)
(* of the Monitor and the control surface, and splits every method at its  *)
(* lock operations and at its writes.                                      *)
(*                                                                         *)
(* Abstractions:                                                           *)
(*  - a plaintext payload is a record [len, body]: its length in bytes and *)
(*    an identifier of its bytes (two payloads are the same byte buffer    *)
(*    iff both fields agree);                                              *)
(*  - SHA-256 is collision free on the payloads of the model;              *)
(*  - AES-256-GCM is an ideal authenticated cipher: a sealed box opens     *)
(*    only under the key and the nonce it was sealed with;                 *)
(*  - time.Now() is the variable clock; it advances between two calls      *)
(*    that read it;                                                        *)
(*  - the random source of the nonces is a fixed tape;                     *)
(*  - a save fails only when the environment makes it fail: the file is    *)
(*    then left as it was or truncated.                                    *)
(*                                                                         *)
(* The modelled session starts with NewDatabase loading the file that an   *)
(* earlier session left (PriorSessions), or with no file.                  *)
(***************************************************************************)
EXTENDS Integers, Sequences, FiniteSets, TLC

VARIABLES
    db,         \* what NewDatabase returned: "none" before the call, "open"
                \* for a Database, "nil" for (nil, err)
    items,      \* db.Items: the storage order, front = index 1
    maxItems,   \* db.maxItems
    file,       \* the persisted file clipboard.db
    clock,      \* the value the next time.Now() returns
    last,       \* the last call made on the store, its arguments and result
    mu,         \* db.mu, the reader/writer lock of the Database
    th,         \* the goroutines: position, outstanding call and locals
    running,    \* Monitor.running
    lastHash,   \* Monitor.lastTextHash and Monitor.lastImageHash
    onLimitWarn,\* whether db.onLimitWarn, Monitor.onLimitWarn and
                \* Monitor.onChange are set
    calls,      \* the limit callbacks invoked so far, with their argument
    codec       \* a use of Encrypt and Decrypt outside the store: the
                \* arguments, the envelope and the results

vars == <<db, items, maxItems, file, clock, last,
          mu, th, running, lastHash, onLimitWarn, calls, codec>>

\* the variables of the callers of the store and of the codec
sys == <<mu, th, running, lastHash, onLimitWarn, calls, codec>>

----------------------------------------------------------------------------
(* Program constants *)

DefaultMaxItems == 100
MaxItemSize == 20 * 1024 * 1024
MinMaxItems == 10
MaxMaxItems == 500
WarnThreshold == 10
KeySize == 32
NonceSize == 12
TagSize == 16

(* Bounds of the model *)

\* number of AddItem calls of the session that read time.Now()
MaxReads == 2
\* nonces the random source returns are 0 .. MaxNonce
MaxNonce == 2

----------------------------------------------------------------------------
(* Values *)

Kinds == {"text", "image"}

Nonces == 0 .. MaxNonce

\* io.ReadFull(rand.Reader, nonce): the random source is a fixed tape; a call
\* at instant t reads position 2t for an item and 2t+1 for the whole file
ItemNonce(t) == (2 * t) % (MaxNonce + 1)
FileNonce(t) == (2 * t + 1) % (MaxNonce + 1)

Payload(l, b) == [len |-> l, body |-> b]

\* len(content)
PayloadLen(p) == p.len

\* the payload argument of a call that has none
NoPayload == Payload(0, -1)

\* fmt.Sprintf("%d", n): the decimal digits of n, most significant first
RECURSIVE ItoA(_)
ItoA(n) == IF n < 10 THEN <<n>> ELSE Append(ItoA(n \div 10), n % 10)

\* fmt.Sprintf("%x", sha256.Sum256(content)): the digest of the payload bytes
Sha256Hex(p) == <<"sha256", p.len, p.body>>

\* GetHardwareKey: sha256 of machine id, OS and architecture, 32 bytes
HardwareKey == [len |-> KeySize, id |-> "machine-os-arch"]

----------------------------------------------------------------------------
(* Cipher codec: Encrypt and Decrypt *)

\* key lengths aes.NewCipher accepts
AesKeySizes == {16, 24, 32}

\* gcm.Seal(nonce, nonce, plaintext, nil): the nonce followed by the sealed
\* box (ciphertext and tag); intact records that no byte was altered since
GcmSealZeroNonce(key, nonce, plaintext) ==
    [nonce |-> nonce,
     sealed |-> [key |-> key, nonce |-> 0, plain |-> plaintext],
     intact |-> TRUE]
GcmSeal(key, nonce, plaintext) ==
    [nonce |-> nonce,
     sealed |-> [key |-> key, nonce |-> nonce, plain |-> plaintext],
     intact |-> TRUE]

\* gcm.Open(nil, nonce, cipherData, nil): the tag verifies only for the
\* untouched box under the key and nonce it was sealed with
GcmOpens(key, data) ==
    /\ data.intact
    /\ data.sealed.key = key
    /\ data.sealed.nonce = data.nonce

\* base64.StdEncoding.EncodeToString: 4 characters of the standard alphabet
\* per 3 bytes, the last group padded with '='; slack is the value of the
\* bits of the last character before the padding that encode no byte (the
\* encoder writes zeros)
Base64Encode(data) == [alphabet |-> "std", data |-> data, slack |-> 0]

\* base64.StdEncoding.DecodeString: fails on text that is not well-formed
\* in the alphabet; StdEncoding is not strict, the decoder does not look at
\* the slack bits
Base64DecodeFails(text) == text.alphabet # "std"

\* the character (ASCII code) of a 6-bit value: A-Z, a-z, 0-9, + and /
Ascii(v) ==
    IF v < 26 THEN 65 + v
    ELSE IF v < 52 THEN 71 + v
    ELSE IF v < 62 THEN v - 4
    ELSE IF v = 62 THEN 43 ELSE 47

\* the padding character '='
PadChar == 61

\* the decode map: the 6-bit value of a character, -1 outside the alphabet
Value(a) ==
    IF \E v \in 0 .. 63 : Ascii(v) = a
    THEN CHOOSE v \in 0 .. 63 : Ascii(v) = a
    ELSE -1

\* the byte a with bit b inverted
FlipBitOf(a, b) == IF (a \div (2 ^ b)) % 2 = 1 THEN a - 2 ^ b ELSE a + 2 ^ b

\* len(ciphertext) in Encrypt: the nonce, the sealed plaintext and the tag
SealedLen(data) == NonceSize + PayloadLen(data.sealed.plain) + TagSize

\* the length of the text that encodes n bytes, the number of '=' at its
\* end and the number of slack bits in the character before them
EncodedLen(n) == 4 * ((n + 2) \div 3)
PadCount(n) == IF n % 3 = 1 THEN 2 ELSE IF n % 3 = 2 THEN 1 ELSE 0
SlackBits(n) == IF n % 3 = 1 THEN 4 ELSE IF n % 3 = 2 THEN 2 ELSE 0

\* the 6-bit values the character at position pos (from 1) of the text can
\* have, -1 standing for '=': the bytes are the output of the cipher under
\* a random nonce, so every value occurs, except at the end of the text
SymbolsAt(text, pos) ==
    LET n == SealedLen(text.data)
        last1 == EncodedLen(n) - PadCount(n)
    IN  IF pos > last1 THEN {-1}
        ELSE IF pos = last1 /\ PadCount(n) > 0
        THEN {v \in 0 .. 63 : v % (2 ^ SlackBits(n)) = text.slack}
        ELSE 0 .. 63

\* what DecodeString makes of the text once bit b of the character at pos,
\* of value v, is inverted: "corrupt" (CorruptInputError: a character
\* outside the alphabet, '=' out of place; '\r' and '\n' are skipped and
\* leave the last group short), "altered" (bytes that differ from the
\* encoded ones in value or number) or "same" (the encoded bytes: only
\* slack bits differ)
FlipOutcome(text, pos, v, b) ==
    LET n == SealedLen(text.data)
        len == EncodedLen(n)
        pads == PadCount(n)
        a2 == FlipBitOf(IF v = -1 THEN PadChar ELSE Ascii(v), b)
        v2 == Value(a2)
        unit == 2 ^ SlackBits(n)
    IN  IF v = -1
        THEN IF v2 >= 0 /\ pos = len - pads + 1 THEN "altered" ELSE "corrupt"
        ELSE IF a2 = PadChar
        THEN IF (pads = 0 /\ pos = len) \/ (pads = 1 /\ pos = len - 1)
             THEN "altered" ELSE "corrupt"
        ELSE IF v2 < 0 THEN "corrupt"
        ELSE IF pads > 0 /\ pos = len - pads /\ v2 \div unit = v \div unit
        THEN "same"
        ELSE "altered"

\* the text with bit b of the character at pos, of value v, inverted
FlipBit(text, pos, v, b) ==
    LET outcome == FlipOutcome(text, pos, v, b)
        v2 == Value(FlipBitOf(Ascii(v), b))
    IN  IF outcome = "corrupt" THEN [text EXCEPT !.alphabet = "corrupt"]
        ELSE IF outcome = "altered" THEN [text EXCEPT !.data.intact = FALSE]
        ELSE [text EXCEPT !.slack = v2 % (2 ^ SlackBits(SealedLen(text.data)))]

Encrypt(plaintext, key, nonce) ==
    [err |-> IF key.len \in AesKeySizes THEN "none" ELSE "cipher",
     text |-> Base64Encode(GcmSeal(key, nonce, plaintext))]

\* the error Decrypt returns, "none" when it returns the plaintext
DecryptErr(text, key) ==
    IF Base64DecodeFails(text) THEN "decode"
    ELSE IF key.len \notin AesKeySizes THEN "cipher"
    ELSE IF text.data.nonce \notin Nonces THEN "short"
    ELSE IF ~GcmOpens(key, text.data) THEN "auth"
    ELSE "none"

\* the plaintext Decrypt returns when DecryptErr is "none"
Decrypt(text, key) == text.data.sealed.plain

----------------------------------------------------------------------------
(* ClipboardItem and its JSON form *)

ClipboardItem(id, type, content, timestamp, pinned, size, hash) ==
    [ID |-> id, Type |-> type, Content |-> content, Timestamp |-> timestamp,
     Pinned |-> pinned, Size |-> size, Hash |-> hash]

\* json.Marshal(db.Items): an array of objects, fields in declaration order
Marshal(its) ==
    [json |-> "array",
     elems |-> [i \in DOMAIN its |->
                   <<its[i].ID, its[i].Type, its[i].Content, its[i].Timestamp,
                     its[i].Pinned, its[i].Size, its[i].Hash>>]]

\* json.Unmarshal(decrypted, &db.Items) fails on a document that is not an
\* array
UnmarshalFails(js) == js.json # "array"

\* json.Unmarshal(decrypted, &db.Items)
Unmarshal(js) ==
    [i \in DOMAIN js.elems |->
        ClipboardItem(js.elems[i][1], js.elems[i][2], js.elems[i][3],
                      js.elems[i][4], js.elems[i][5], js.elems[i][6],
                      js.elems[i][7])]

----------------------------------------------------------------------------
(* The algorithms of Database, as functions of db.Items and db.maxItems *)

\* the loops of IsFull and AddItem counting items with !item.Pinned
UnpinnedCountAll(its) == Len(its)
UnpinnedCount(its) == Cardinality({i \in DOMAIN its : ~its[i].Pinned})

\* the loop of GetPinnedCount
PinnedCount(its) == Cardinality({i \in DOMAIN its : its[i].Pinned})

Min(S) == CHOOSE x \in S : \A y \in S : x <= y

\* first index whose Hash and Type match, 0 when there is none
FindDuplicateAnyType(its, hash, kind) ==
    LET M == {i \in DOMAIN its : its[i].Hash = hash}
    IN  IF M = {} THEN 0 ELSE Min(M)
FindDuplicate(its, hash, kind) ==
    LET M == {i \in DOMAIN its : its[i].Hash = hash /\ its[i].Type = kind}
    IN  IF M = {} THEN 0 ELSE Min(M)

\* first index whose ID matches, 0 when there is none
FindByID(its, id) ==
    LET M == {i \in DOMAIN its : its[i].ID = id}
    IN  IF M = {} THEN 0 ELSE Min(M)

\* append(db.Items[:i], db.Items[i+1:]...)
RemoveOldest(its, i) == SubSeq(its, 1, Len(its) - 1)
RemoveAt(its, i) == SubSeq(its, 1, i - 1) \o SubSeq(its, i + 1, Len(its))

\* AddItem on a duplicate: the existing item goes to the top with a new
\* Timestamp
PromoteItemInPlace(its, i, now) == [its EXCEPT ![i].Timestamp = now]
PromoteItem(its, i, now) ==
    <<[its[i] EXCEPT !.Timestamp = now]>> \o RemoveAt(its, i)

\* AddItem on new content: the new item is added at the beginning
InsertItemAtEnd(its, kind, p, now, nonce) ==
    its \o <<ClipboardItem(ItoA(now), kind, Encrypt(p, HardwareKey, nonce).text,
                           now, FALSE, PayloadLen(p), Sha256Hex(p))>>
InsertItem(its, kind, p, now, nonce) ==
    <<ClipboardItem(ItoA(now), kind, Encrypt(p, HardwareKey, nonce).text,
                    now, FALSE, PayloadLen(p), Sha256Hex(p))>> \o its

\* db.Items[i].Pinned = !item.Pinned
SetPinnedAt(its, i) == [its EXCEPT ![i].Pinned = TRUE]
TogglePinAt(its, i) == [its EXCEPT ![i].Pinned = ~@]

\* the items satisfying a test, in storage order
RECURSIVE SelectItems(_, _)
SelectItems(its, wantPinned) ==
    IF its = <<>> THEN <<>>
    ELSE IF Head(its).Pinned = wantPinned
         THEN <<Head(its)>> \o SelectItems(Tail(its), wantPinned)
         ELSE SelectItems(Tail(its), wantPinned)

\* s[:n] for n <= len(s)
Prefix(s, n) == SubSeq(s, 1, n)

enforceLimitNewestOnly(its, max) ==
    IF Len(its) <= max THEN its ELSE Prefix(its, max)
enforceLimit(its, max) ==
    IF Len(its) <= max THEN its
    ELSE LET pinnedAll == SelectItems(its, TRUE)
             unpinnedAll == SelectItems(its, FALSE)
             pinnedItems == IF Len(pinnedAll) > max
                            THEN Prefix(pinnedAll, max) ELSE pinnedAll
             availableSlots == max - Len(pinnedItems)
             unpinnedItems == IF Len(unpinnedAll) > availableSlots
                              THEN Prefix(unpinnedAll, availableSlots)
                              ELSE unpinnedAll
         IN  pinnedItems \o unpinnedItems

\* the clamp of SetMaxItems
ClampMaxNoUpper(n) == IF n < MinMaxItems THEN MinMaxItems ELSE n
ClampMax(n) == IF n < MinMaxItems THEN MinMaxItems
               ELSE IF n > MaxMaxItems THEN MaxMaxItems ELSE n

\* GetAllItems: pinned first, then unpinned
GetAllItemsAsStored(its) == its
GetAllItems(its) == SelectItems(its, TRUE) \o SelectItems(its, FALSE)

\* GetItem: a copy of the first item with this ID (item is empty for nil)
\* and its decrypted Content
GetItemFirstStored(its, id) ==
    IF FindByID(its, id) = 0
    THEN [item |-> <<>>, data |-> NoPayload, err |-> "NotFound"]
    ELSE IF DecryptErr(its[1].Content, HardwareKey) # "none"
    THEN [item |-> <<>>, data |-> NoPayload, err |-> "DecryptError"]
    ELSE [item |-> <<its[FindByID(its, id)]>>,
          data |-> Decrypt(its[1].Content, HardwareKey), err |-> "OK"]
GetItem(its, id) ==
    LET i == FindByID(its, id)
    IN  IF i = 0
        THEN [item |-> <<>>, data |-> NoPayload, err |-> "NotFound"]
        ELSE IF DecryptErr(its[i].Content, HardwareKey) # "none"
        THEN [item |-> <<>>, data |-> NoPayload, err |-> "DecryptError"]
        ELSE [item |-> <<its[i]>>,
              data |-> Decrypt(its[i].Content, HardwareKey), err |-> "OK"]

\* AddItem's test "unpinnedCount >= db.maxItems"
AtLimitOffByOne(unpinnedCount, max) == unpinnedCount > max
AtLimit(unpinnedCount, max) == unpinnedCount >= max

\* AddItem's "remaining <= 10 && remaining >= 0"
WarnNeededBelowTen(remaining) == remaining < WarnThreshold /\ remaining >= 0
WarnNeeded(remaining) == remaining <= WarnThreshold /\ remaining >= 0

IsFull(its, max) == UnpinnedCount(its) >= max

IsNearLimit(its, max) == Len(its) >= max - WarnThreshold

GetRemainingSlots(its, max) ==
    IF max - Len(its) < 0 THEN 0 ELSE max - Len(its)

----------------------------------------------------------------------------
(* The persisted file *)

NoData == [nonce |-> -1, sealed |-> [key |-> HardwareKey, nonce |-> -1,
                                      plain |-> Marshal(<<>>)],
           intact |-> FALSE]

\* no file at the database path
AbsentFile == [state |-> "absent", text |-> Base64Encode(NoData)]

\* what a WriteFile that failed after truncating the file leaves behind
TruncatedFile == [state |-> "written", text |-> Base64Encode(NoData)]

\* the file a successful saveInternal of its leaves: the collection as JSON,
\* encrypted as one envelope
SavedFileUnsealed(its, nonce) ==
    [state |-> "written",
     text |-> Base64Encode([nonce |-> nonce,
                            sealed |-> [key |-> [len |-> 0, id |-> ""],
                                        nonce |-> nonce,
                                        plain |-> Marshal(its)],
                            intact |-> TRUE])]
SavedFile(its, nonce) ==
    [state |-> "written",
     text |-> Encrypt(Marshal(its), HardwareKey, nonce).text]

\* the error of Database.Load on file f, "none" when it succeeds
LoadErr(f) ==
    IF f.state = "absent" THEN "notexist"
    ELSE IF f.state = "unreadable" THEN "read"
    ELSE IF DecryptErr(f.text, HardwareKey) # "none" THEN "decrypt"
    ELSE IF UnmarshalFails(Decrypt(f.text, HardwareKey)) THEN "parse"
    ELSE "none"

\* db.Items after a successful Database.Load of file f into a new Database
LoadItems(f) == Unmarshal(Decrypt(f.text, HardwareKey))

\* outcomes of saveInternal: written; failed with the file as it was
\* (GetDatabasePath or the open failed); failed with the file truncated
SaveOutcomes == {"ok", "failed", "truncated"}

\* the file after a saveInternal of its with the given outcome
FileAfterSave(f, its, outcome, nonce) ==
    IF outcome = "ok" THEN SavedFile(its, nonce)
    ELSE IF outcome = "truncated" THEN TruncatedFile
    ELSE f

\* a new Database that loads file f obtains exactly the collection its
FileHolds(f, its) ==
    /\ f.state = "written"
    /\ LoadErr(f) = "none"
    /\ LoadItems(f) = its

\* the file is what the last successful save of the collection left, or
\* nothing was ever saved and the collection is empty
InSync(f, its) == FileHolds(f, its) \/ (f.state = "absent" /\ its = <<>>)

\* the error saveInternal returns
SaveResult(outcome) == IF outcome = "ok" THEN "OK" ELSE "PersistError"

----------------------------------------------------------------------------
(* Sessions that ran before the modelled one and left the file behind *)

\* the k-th payload copied in an earlier session
PriorPayload(k) == Payload(k, k)

\* an earlier session added n text items at instants 1..n and then pinned
\* those whose instant is in pinned
PriorSessions ==
    { [n |-> 0,  pinned |-> {}],
      [n |-> 9,  pinned |-> {}],
      [n |-> 15, pinned |-> (2 .. 14) \ {7, 11}] }

Max(S) == CHOOSE x \in S : \A y \in S : x >= y

\* the first instant of the modelled session, and the last one at which it
\* may read the clock
SessionStart == 1 + Max({s.n : s \in PriorSessions})
MaxClock == SessionStart + MaxReads

RECURSIVE PriorAdds(_)
PriorAdds(n) ==
    IF n = 0 THEN <<>>
    ELSE InsertItem(PriorAdds(n - 1), "text", PriorPayload(n), n, ItemNonce(n))

RECURSIVE PriorPins(_, _)
PriorPins(its, ids) ==
    IF ids = {} THEN its
    ELSE LET k == Min(ids)
         IN  PriorPins(TogglePinAt(its, FindByID(its, ItoA(k))), ids \ {k})

PriorItems(s) == PriorPins(PriorAdds(s.n), s.pinned)

PriorFile(s) ==
    IF s.n = 0 THEN AbsentFile ELSE SavedFile(PriorItems(s), FileNonce(s.n))

\* the key GetHardwareKey derives on another machine
ForeignKey == [len |-> KeySize, id |-> "other-machine"]

\* a file of an earlier session
GoodFile == PriorFile([n |-> 9, pinned |-> {}])

\* files at the database path that Load cannot use: one that ReadFile cannot
\* read, an empty one, one that is not base64 text, one with an altered
\* byte, one sealed on another machine, and one whose plaintext is a JSON
\* object instead of an array of items
DamagedFiles ==
    { [state |-> "unreadable", text |-> GoodFile.text],
      TruncatedFile,
      [state |-> "written", text |-> [GoodFile.text EXCEPT !.alphabet = "raw"]],
      [state |-> "written",
       text |-> [GoodFile.text EXCEPT !.data.intact = FALSE]],
      [state |-> "written",
       text |-> Encrypt(Marshal(PriorAdds(9)), ForeignKey, FileNonce(9)).text],
      [state |-> "written",
       text |-> Encrypt([json |-> "object", elems |-> <<>>], HardwareKey,
                        FileNonce(9)).text] }

\* the files the program may find when it starts
StartFiles == {PriorFile(s) : s \in PriorSessions} \cup DamagedFiles

----------------------------------------------------------------------------
(* Inputs of the calls *)

\* (type, content) pairs given to AddItem: a payload of an earlier session
\* under both types, a payload of exactly MaxItemSize, an oversized one
AddInputs ==
    { <<"text", PriorPayload(3)>>, <<"image", PriorPayload(3)>>,
      <<"text", Payload(MaxItemSize, 0)>>,
      <<"text", Payload(MaxItemSize + 1, 0)>> }

\* ids given to TogglePin: an item of an earlier session, and the first item
\* the session creates (not stored before that, and after its deletion)
PinInputs == {ItoA(3), ItoA(SessionStart)}

\* ids given to DeleteItem
DeleteInputs == {ItoA(SessionStart)}

\* arguments of SetMaxItems: one below the range, one inside
MaxInputs == {9, 12}

----------------------------------------------------------------------------
(* The state machine *)

Call(op, kind, p, id, n, res, rem) ==
    [op |-> op, kind |-> kind, payload |-> p, id |-> id, n |-> n,
     res |-> res, rem |-> rem]

\* the goroutines of the monitor loops and of the control surface
Loops == {"loop1", "loop2"}
Threads == Loops \cup {"ui"}

NoPre == [items |-> <<>>, maxItems |-> 0]

\* a goroutine: its position pc, the call it has outstanding (op and
\* arguments kind, payload, id, n), its locals (pre: the fields of db when
\* it took the lock; now: the time it read; warn: warnNeeded) and the
\* results of the call (err, rem, list, and data: the bytes GetItem returns)
Thread(pc, op, kind, p, id, n, pre, now, warn, err, rem, list) ==
    [pc |-> pc, op |-> op, kind |-> kind, payload |-> p, id |-> id, n |-> n,
     pre |-> pre, now |-> now, warn |-> warn,
     err |-> err, rem |-> rem, list |-> list, data |-> NoPayload]

\* a goroutine with no call outstanding
Parked(pc) ==
    Thread(pc, "", "", NoPayload, <<>>, 0, NoPre, 0, FALSE, "", 0, <<>>)

\* a goroutine that has just made a call
Calling(pc, op, kind, p, id, n) ==
    Thread(pc, op, kind, p, id, n, NoPre, 0, FALSE, "", 0, <<>>)

\* a zero sync.RWMutex
FreeLock == [writer |-> "none", readers |-> {}]

\* a nil hash slice
NoHash == <<"nil", 0, 0>>

\* a key of the given length
Key(l) == [len |-> l, id |-> "caller"]

NoFlip == [pos |-> 0, bit |-> 0, from |-> 0, to |-> 0]

\* a use of the codec: its position pc, the arguments of Encrypt (plain,
\* key), the nonce it drew, the envelope text, the bit inverted in it, the
\* key given to Decrypt (dkey) and the results of the last call (err, out)
Codec(pc, plain, key, nonce, text, flip, dkey, err, out) ==
    [pc |-> pc, plain |-> plain, key |-> key, nonce |-> nonce, text |-> text,
     flip |-> flip, dkey |-> dkey, err |-> err, out |-> out]

\* the codec is used by the store only
CodecIdle ==
    Codec("idle", NoPayload, Key(0), 0, Base64Encode(NoData), NoFlip, Key(0),
          "", NoPayload)

\* nothing runs beside the caller of the store: no monitor loop, the
\* control surface not set up, no callback registered
SysInit ==
    /\ mu = FreeLock
    /\ th = [t \in Threads |-> Parked(IF t \in Loops THEN "dead" ELSE "setup")]
    /\ running = FALSE
    /\ lastHash = [text |-> NoHash, image |-> NoHash]
    /\ onLimitWarn = [db |-> FALSE, monitor |-> FALSE, change |-> FALSE]
    /\ calls = {}

\* the program starts: no Database yet, some file or none at the path
Init ==
    /\ SysInit
    /\ codec = CodecIdle
    /\ db = "none"
    /\ file \in StartFiles
    /\ items = <<>>
    /\ maxItems = 0
    /\ clock = SessionStart
    /\ last = Call("", "", NoPayload, <<>>, 0, "", 0)

\* NewDatabase: maxItems is DefaultMaxItems, Items is what Load reads; a
\* missing file gives the empty store, any other error of Load gives no
\* store
NewDatabaseFallsBack ==
    /\ db = "none"
    /\ db' = "open"
    /\ items' = IF LoadErr(file) = "none" THEN LoadItems(file) ELSE <<>>
    /\ maxItems' = DefaultMaxItems
    /\ last' = Call("NewDatabase", "", NoPayload, <<>>, 0, "OK", 0)
    /\ UNCHANGED <<file, clock, sys>>
NewDatabase ==
    /\ db = "none"
    /\ IF LoadErr(file) \in {"none", "notexist"}
       THEN /\ db' = "open"
            /\ items' = IF LoadErr(file) = "none" THEN LoadItems(file)
                         ELSE <<>>
            /\ maxItems' = DefaultMaxItems
            /\ last' = Call("NewDatabase", "", NoPayload, <<>>, 0, "OK", 0)
       ELSE /\ db' = "nil"
            /\ last' = Call("NewDatabase", "", NoPayload, <<>>, 0,
                            "LoadError", 0)
            /\ UNCHANGED <<items, maxItems>>
    /\ UNCHANGED <<file, clock, sys>>

\* a call on the Database that NewDatabase returned, made while no other
\* goroutine calls the store
OnStore == db = "open" /\ UNCHANGED <<db, sys>>

\* saveInternal of the new collection with the given outcome; the
\* environment makes a save fail only while the file is up to date, so no
\* two saves in a row fail
Persist(its, outcome) ==
    /\ outcome # "ok" => InSync(file, items)
    /\ file' = FileAfterSave(file, its, outcome, FileNonce(clock))

\* AddItem returning before any change: oversized content, or new content
\* while the store is full
AddItemRefusedAtMax(kind, p) ==
    /\ OnStore
    /\ \/ /\ PayloadLen(p) >= MaxItemSize
          /\ last' = Call("AddItem", kind, p, <<>>, 0, "SizeExceeded", 0)
       \/ /\ PayloadLen(p) <= MaxItemSize
          /\ FindDuplicate(items, Sha256Hex(p), kind) = 0
          /\ AtLimit(UnpinnedCount(items), maxItems)
          /\ last' = Call("AddItem", kind, p, <<>>, 0, "LimitFull", 0)
    /\ UNCHANGED <<items, maxItems, file, clock>>
AddItemRefused(kind, p) ==
    /\ OnStore
    /\ \/ /\ PayloadLen(p) > MaxItemSize
          /\ last' = Call("AddItem", kind, p, <<>>, 0, "SizeExceeded", 0)
       \/ /\ PayloadLen(p) <= MaxItemSize
          /\ FindDuplicate(items, Sha256Hex(p), kind) = 0
          /\ AtLimit(UnpinnedCount(items), maxItems)
          /\ last' = Call("AddItem", kind, p, <<>>, 0, "LimitFull", 0)
    /\ UNCHANGED <<items, maxItems, file, clock>>

\* AddItem of content already stored under the same type
AddItemDuplicateAfterLimit(kind, p, outcome) ==
    LET i == FindDuplicate(items, Sha256Hex(p), kind)
    IN  /\ OnStore
        /\ PayloadLen(p) <= MaxItemSize
        /\ i # 0
        /\ IF AtLimit(UnpinnedCount(items), maxItems)
           THEN /\ outcome = "ok"
                /\ last' = Call("AddItem", kind, p, <<>>, 0, "LimitFull", 0)
                /\ UNCHANGED <<items, maxItems, file, clock>>
           ELSE /\ clock < MaxClock
                /\ items' = PromoteItem(items, i, clock)
                /\ clock' = clock + 1
                /\ Persist(items', outcome)
                /\ last' = Call("AddItem", kind, p, <<>>, 0,
                                SaveResult(outcome), 0)
                /\ UNCHANGED maxItems
AddItemDuplicate(kind, p, outcome) ==
    LET i == FindDuplicate(items, Sha256Hex(p), kind)
    IN  /\ OnStore
        /\ PayloadLen(p) <= MaxItemSize
        /\ i # 0
        /\ clock < MaxClock
        /\ items' = PromoteItem(items, i, clock)
        /\ clock' = clock + 1
        /\ Persist(items', outcome)
        /\ last' = Call("AddItem", kind, p, <<>>, 0, SaveResult(outcome), 0)
        /\ UNCHANGED maxItems

AddItemNewEvicting(kind, p, outcome) ==
    LET unpinnedCount == UnpinnedCount(items)
        remaining == maxItems - unpinnedCount - 1
        warnNeeded == WarnNeeded(remaining)
    IN  /\ OnStore
        /\ PayloadLen(p) <= MaxItemSize
        /\ FindDuplicate(items, Sha256Hex(p), kind) = 0
        /\ ~AtLimit(unpinnedCount, maxItems)
        /\ clock < MaxClock
        /\ items' = enforceLimit(InsertItem(items, kind, p, clock,
                                            ItemNonce(clock)), maxItems)
        /\ clock' = clock + 1
        /\ Persist(items', outcome)
        /\ last' = IF outcome # "ok"
                   THEN Call("AddItem", kind, p, <<>>, 0, "PersistError", 0)
                   ELSE IF warnNeeded
                   THEN Call("AddItem", kind, p, <<>>, 0, "LimitWarn",
                             remaining)
                   ELSE Call("AddItem", kind, p, <<>>, 0, "OK", 0)
        /\ UNCHANGED maxItems
\* AddItem of new content below the limit
AddItemNew(kind, p, outcome) ==
    LET unpinnedCount == UnpinnedCount(items)
        remaining == maxItems - unpinnedCount - 1
        warnNeeded == WarnNeeded(remaining)
    IN  /\ OnStore
        /\ PayloadLen(p) <= MaxItemSize
        /\ FindDuplicate(items, Sha256Hex(p), kind) = 0
        /\ ~AtLimit(unpinnedCount, maxItems)
        /\ clock < MaxClock
        /\ items' = InsertItem(items, kind, p, clock, ItemNonce(clock))
        /\ clock' = clock + 1
        /\ Persist(items', outcome)
        /\ last' = IF outcome # "ok"
                   THEN Call("AddItem", kind, p, <<>>, 0, "PersistError", 0)
                   ELSE IF warnNeeded
                   THEN Call("AddItem", kind, p, <<>>, 0, "LimitWarn",
                             remaining)
                   ELSE Call("AddItem", kind, p, <<>>, 0, "OK", 0)
        /\ UNCHANGED maxItems

AddItem ==
    \E in \in AddInputs :
        \/ AddItemRefused(in[1], in[2])
        \/ \E outcome \in SaveOutcomes :
               AddItemDuplicate(in[1], in[2], outcome)
        \/ \E outcome \in SaveOutcomes :
               AddItemNew(in[1], in[2], outcome)

\* SetMaxItems has no result: the error of saveInternal is dropped
SetMaxItemsTo(n, outcome) ==
    /\ OnStore
    /\ maxItems' = ClampMax(n)
    /\ items' = enforceLimit(items, maxItems')
    /\ Persist(items', outcome)
    /\ last' = Call("SetMaxItems", "", NoPayload, <<>>, n, "Void", 0)
    /\ UNCHANGED clock

SetMaxItems ==
    \E n \in MaxInputs, outcome \in SaveOutcomes : SetMaxItemsTo(n, outcome)

TogglePin ==
    \E id \in PinInputs :
        LET i == FindByID(items, id)
        IN  \/ /\ OnStore
               /\ i # 0
               /\ \E outcome \in SaveOutcomes :
                     /\ items' = TogglePinAt(items, i)
                     /\ Persist(items', outcome)
                     /\ last' = Call("TogglePin", "", NoPayload, id, 0,
                                     SaveResult(outcome), 0)
               /\ UNCHANGED <<maxItems, clock>>
            \/ /\ OnStore
               /\ i = 0
               /\ last' = Call("TogglePin", "", NoPayload, id, 0,
                               "NotFound", 0)
               /\ UNCHANGED <<items, maxItems, file, clock>>

DeleteItem ==
    \E id \in DeleteInputs :
        LET i == FindByID(items, id)
        IN  \/ /\ OnStore
               /\ i # 0
               /\ \E outcome \in SaveOutcomes :
                     /\ items' = RemoveAt(items, i)
                     /\ Persist(items', outcome)
                     /\ last' = Call("DeleteItem", "", NoPayload, id, 0,
                                     SaveResult(outcome), 0)
               /\ UNCHANGED <<maxItems, clock>>
            \/ /\ OnStore
               /\ i = 0
               /\ last' = Call("DeleteItem", "", NoPayload, id, 0,
                               "NotFound", 0)
               /\ UNCHANGED <<items, maxItems, file, clock>>

\* ClearAll: db.Items = make([]ClipboardItem, 0), then saveInternal
ClearAllKeepsPinned ==
    \E outcome \in SaveOutcomes :
        /\ OnStore
        /\ items' = SelectItems(items, TRUE)
        /\ Persist(items', outcome)
        /\ last' = Call("ClearAll", "", NoPayload, <<>>, 0,
                        SaveResult(outcome), 0)
        /\ UNCHANGED <<maxItems, clock>>
ClearAll ==
    \E outcome \in SaveOutcomes :
        /\ OnStore
        /\ items' = <<>>
        /\ Persist(items', outcome)
        /\ last' = Call("ClearAll", "", NoPayload, <<>>, 0,
                        SaveResult(outcome), 0)
        /\ UNCHANGED <<maxItems, clock>>

Save ==
    \E outcome \in SaveOutcomes :
        /\ OnStore
        /\ Persist(items, outcome)
        /\ last' = Call("Save", "", NoPayload, <<>>, 0,
                        SaveResult(outcome), 0)
        /\ UNCHANGED <<items, maxItems, clock>>

Next ==
    \/ NewDatabase
    \/ AddItem
    \/ SetMaxItems
    \/ TogglePin
    \/ DeleteItem
    \/ ClearAll
    \/ Save

Spec == Init /\ [][Next]_vars

----------------------------------------------------------------------------
(* The store on a new machine, with SetMaxItems called over the range of   *)
(* int.                                                                    *)

\* the first start of the program on a machine: no file at the path yet
FreshInit == Init /\ file = AbsentFile

\* arguments of SetMaxItems: negative, zero, around both ends of the range
\* 10..500 and far above it
AnyMaxInputs == {-1, 0, 9, 10, 11, 499, 500, 501, 1000}

SetMaxItemsAny ==
    \E n \in AnyMaxInputs, outcome \in SaveOutcomes : SetMaxItemsTo(n, outcome)

CapNext ==
    \/ NewDatabase
    \/ AddItem
    \/ SetMaxItemsAny
    \/ TogglePin
    \/ DeleteItem
    \/ ClearAll
    \/ Save

CapSpec == FreshInit /\ [][CapNext]_vars

----------------------------------------------------------------------------
(* The store under the wall clock.  time.Now() reads the wall clock of the *)
(* machine and UnixNano() is computed from that reading: the value is not  *)
(* monotonic.  Between two calls of the store the clock may be set back    *)
(* (time synchronisation, the user), and two readings within one tick of   *)
(* the system timer return the same value.                                 *)

\* the next time.Now() returns an instant that an earlier reading of the
\* session returned already
SetClock ==
    /\ db = "open"
    /\ \E t \in SessionStart .. clock - 1 : clock' = t
    /\ UNCHANGED <<db, items, maxItems, file, last, sys>>

\* the calls that create and destroy items, under the wall clock
WallNext ==
    \/ NewDatabase
    \/ AddItem
    \/ DeleteItem
    \/ SetClock

WallSpec == FreshInit /\ [][WallNext]_vars

----------------------------------------------------------------------------
(* The store under concurrent callers.  The goroutines of the monitor      *)
(* loops call AddItem, the control surface calls the other methods; every  *)
(* method is split at its lock operations, at its writes to the fields of  *)
(* db and at its write of the file.                                        *)

store == <<db, items, maxItems, file, clock, last>>

\* what a monitor loop may find on the clipboard at a tick
ClipInputs == {<<"text", PriorPayload(3)>>, <<"image", PriorPayload(3)>>}

\* arguments the control surface gives to SetMaxItems, and ids it gives to
\* TogglePin and DeleteItem
UiMaxInputs == {9}
UiPinInputs == {ItoA(3)}
UiDeleteInputs == {ItoA(SessionStart)}

\* ids the control surface gives to GetItem (CopyToClipboard): an item of
\* the earlier session and the first item the session creates
UiGetInputs == {ItoA(3), ItoA(SessionStart)}

\* the methods that take the lock shared
ReaderOps ==
    {"GetAllItems", "GetItemCount", "GetPinnedCount", "GetRemainingSlots",
     "IsFull"}

\* db.mu.Lock() returns once no goroutine holds the lock, shared or not
CanLockBesideWriter(m) == m.readers = {}
CanLock(m) == m.writer = "none" /\ m.readers = {}

\* db.mu.RLock() returns once no goroutine holds the lock exclusively
CanRLockAlone(m) == m.writer = "none" /\ m.readers = {}
CanRLock(m) == m.writer = "none"

\* the session the concurrent system starts from
ConcSession == [n |-> 15, pinned |-> (2 .. 14) \ {7, 11}]

\* main has opened the store; no loop runs, nothing is registered
ConcInit ==
    /\ SysInit
    /\ codec = CodecIdle
    /\ db = "open"
    /\ file = PriorFile(ConcSession)
    /\ items = LoadItems(file)
    /\ maxItems = DefaultMaxItems
    /\ clock = SessionStart
    /\ last = Call("NewDatabase", "", NoPayload, <<>>, 0, "OK", 0)

\* NewApp registers the limit callback on the monitor; the control surface
\* registers one on the store through Manager.SetOnLimitWarn
SetUp ==
    /\ th["ui"].pc = "setup"
    /\ onLimitWarn' = [onLimitWarn EXCEPT !.db = TRUE, !.monitor = TRUE]
    /\ th' = [th EXCEPT !["ui"] = Parked("idle")]
    /\ UNCHANGED <<store, codec, mu, running, lastHash, calls>>

\* Monitor.Start while not running (while running it only returns an
\* error): running is set and a new monitorLoop goroutine is started
Start ==
    /\ th["ui"].pc = "idle"
    /\ ~running
    /\ \E l \in Loops : th[l].pc = "dead"
    /\ LET l == CHOOSE k \in Loops : th[k].pc = "dead"
       IN  th' = [th EXCEPT ![l] = Parked("wait")]
    /\ running' = TRUE
    /\ UNCHANGED <<store, codec, mu, lastHash, onLimitWarn, calls>>

\* Monitor.Stop
Stop ==
    /\ th["ui"].pc = "idle"
    /\ running
    /\ running' = FALSE
    /\ UNCHANGED <<store, codec, mu, th, lastHash, onLimitWarn, calls>>

\* a ticker event in monitorLoop: the loop returns when running is false,
\* else checkClipboard runs and handleText or handleImage calls AddItem for
\* content whose hash is not the last one seen
Tick(l) ==
    /\ th[l].pc = "wait"
    /\ IF ~running
       THEN /\ th' = [th EXCEPT ![l] = Parked("dead")]
            /\ UNCHANGED lastHash
       ELSE \E c \in ClipInputs :
               /\ lastHash[c[1]] # Sha256Hex(c[2])
               /\ lastHash' = [lastHash EXCEPT ![c[1]] = Sha256Hex(c[2])]
               /\ th' = [th EXCEPT
                            ![l] = Calling("lock", "AddItem", c[1], c[2], <<>>,
                                           0)]
    /\ UNCHANGED <<store, codec, mu, running, onLimitWarn, calls>>

\* the control surface calls a method of the store
UiCall ==
    /\ th["ui"].pc = "idle"
    /\ \/ \E n \in UiMaxInputs :
             th' = [th EXCEPT !["ui"] =
                       Calling("lock", "SetMaxItems", "", NoPayload, <<>>, n)]
       \/ \E id \in UiPinInputs :
             th' = [th EXCEPT !["ui"] =
                       Calling("lock", "TogglePin", "", NoPayload, id, 0)]
       \/ \E id \in UiDeleteInputs :
             th' = [th EXCEPT !["ui"] =
                       Calling("lock", "DeleteItem", "", NoPayload, id, 0)]
       \/ \E op \in {"ClearAll", "Save"} :
             th' = [th EXCEPT !["ui"] =
                       Calling("lock", op, "", NoPayload, <<>>, 0)]
       \/ \E op \in ReaderOps :
             th' = [th EXCEPT !["ui"] =
                       Calling("rlock", op, "", NoPayload, <<>>, 0)]
    /\ UNCHANGED <<store, codec, mu, running, lastHash, onLimitWarn, calls>>

\* db.mu.Lock()
Lock(t) ==
    /\ th[t].pc = "lock"
    /\ CanLock(mu)
    /\ mu' = [mu EXCEPT !.writer = t]
    /\ th' = [th EXCEPT ![t].pc = "body",
                        ![t].pre = [items |-> items, maxItems |-> maxItems]]
    /\ UNCHANGED <<store, codec, running, lastHash, onLimitWarn, calls>>

\* the deferred db.mu.Unlock() of a method that returns err before saving
ReturnEarly(t, err) ==
    /\ mu' = [mu EXCEPT !.writer = "none"]
    /\ th' = [th EXCEPT ![t].pc = "ret", ![t].err = err]
    /\ UNCHANGED <<items, maxItems, clock>>

\* db.Items[i] in front of the other items
MoveToFront(its, i) == <<its[i]>> \o RemoveAt(its, i)

\* the body of a method up to and including its first write to db, or up
\* to its call of saveInternal when it writes nothing
FirstWrite(t) ==
    LET c == th[t]
        i == FindDuplicate(items, Sha256Hex(c.payload), c.kind)
        j == FindByID(items, c.id)
        unpinnedCount == UnpinnedCount(items)
        remaining == maxItems - unpinnedCount - 1
    IN  /\ c.pc = "body"
        /\ IF c.op = "AddItem"
           THEN IF PayloadLen(c.payload) > MaxItemSize
                THEN ReturnEarly(t, "SizeExceeded")
                ELSE IF i # 0
                THEN /\ items' = MoveToFront(items, i)
                     /\ th' = [th EXCEPT ![t].pc = "body2"]
                     /\ UNCHANGED <<maxItems, clock, mu>>
                ELSE IF AtLimit(unpinnedCount, maxItems)
                THEN ReturnEarly(t, "LimitFull")
                ELSE /\ items' = InsertItem(items, c.kind, c.payload, clock,
                                            ItemNonce(clock))
                     /\ clock' = clock + 1
                     /\ th' = [th EXCEPT ![t].pc = "save",
                                         ![t].now = clock,
                                         ![t].warn = WarnNeeded(remaining),
                                         ![t].rem = remaining]
                     /\ UNCHANGED <<maxItems, mu>>
           ELSE IF c.op = "SetMaxItems"
           THEN /\ maxItems' = ClampMax(c.n)
                /\ th' = [th EXCEPT ![t].pc = "body2"]
                /\ UNCHANGED <<items, clock, mu>>
           ELSE IF c.op \in {"TogglePin", "DeleteItem"}
           THEN IF j = 0
                THEN ReturnEarly(t, "NotFound")
                ELSE /\ items' = IF c.op = "TogglePin"
                                 THEN TogglePinAt(items, j)
                                 ELSE RemoveAt(items, j)
                     /\ th' = [th EXCEPT ![t].pc = "save"]
                     /\ UNCHANGED <<maxItems, clock, mu>>
           ELSE /\ c.op \in {"ClearAll", "Save"}
                /\ items' = IF c.op = "ClearAll" THEN <<>> ELSE items
                /\ th' = [th EXCEPT ![t].pc = "save"]
                /\ UNCHANGED <<maxItems, clock, mu>>
        /\ UNCHANGED <<db, file, last, running, lastHash, onLimitWarn, calls,
                       codec>>

\* the second write of the methods that have one: the Timestamp of the
\* promoted item, the eviction of SetMaxItems
SecondWrite(t) ==
    LET c == th[t]
    IN  /\ c.pc = "body2"
        /\ IF c.op = "AddItem"
           THEN /\ items' = [items EXCEPT ![1].Timestamp = clock]
                /\ clock' = clock + 1
                /\ th' = [th EXCEPT ![t].pc = "save", ![t].now = clock]
                /\ UNCHANGED maxItems
           ELSE /\ c.op = "SetMaxItems"
                /\ items' = enforceLimit(items, maxItems)
                /\ th' = [th EXCEPT ![t].pc = "save"]
                /\ UNCHANGED <<maxItems, clock>>
        /\ UNCHANGED <<db, file, last, mu, running, lastHash, onLimitWarn,
                       calls, codec>>

\* what the method returns after saveInternal with this outcome
ResultAfterSave(c, outcome) ==
    IF c.op = "SetMaxItems" THEN "Void"
    ELSE IF outcome # "ok" THEN "PersistError"
    ELSE IF c.op = "AddItem" /\ c.warn THEN "LimitWarn"
    ELSE "OK"

\* outcomes of saveInternal under concurrent callers: every write of the
\* file succeeds (failing writes are explored in Spec)
ConcSaveOutcomes == {"ok"}

\* saveInternal writes the file, then the deferred db.mu.Unlock() runs
WriteFile(t) ==
    \E outcome \in ConcSaveOutcomes :
        /\ th[t].pc = "save"
        /\ outcome # "ok" => InSync(file, th[t].pre.items)
        /\ file' = FileAfterSave(file, items, outcome, FileNonce(clock))
        /\ mu' = [mu EXCEPT !.writer = "none"]
        /\ th' = [th EXCEPT ![t].pc = "ret",
                            ![t].err = ResultAfterSave(th[t], outcome)]
        /\ UNCHANGED <<db, items, maxItems, clock, last, running, lastHash,
                       onLimitWarn, calls, codec>>

\* db.mu.RLock()
RLock(t) ==
    /\ th[t].pc = "rlock"
    /\ CanRLock(mu)
    /\ mu' = [mu EXCEPT !.readers = @ \cup {t}]
    /\ th' = [th EXCEPT ![t].pc = "read",
                        ![t].pre = [items |-> items, maxItems |-> maxItems]]
    /\ UNCHANGED <<store, codec, running, lastHash, onLimitWarn, calls>>

\* the body of a reading method, then the deferred db.mu.RUnlock()
Read(t) ==
    LET c == th[t]
    IN  /\ c.pc = "read"
        /\ mu' = [mu EXCEPT !.readers = @ \ {t}]
        /\ th' = [th EXCEPT
              ![t].pc = "ret",
              ![t].list = IF c.op = "GetAllItems" THEN GetAllItems(items)
                          ELSE IF c.op = "GetItem"
                          THEN GetItem(items, c.id).item
                          ELSE <<>>,
              ![t].data = IF c.op = "GetItem" THEN GetItem(items, c.id).data
                          ELSE NoPayload,
              ![t].rem = IF c.op = "GetItemCount" THEN Len(items)
                         ELSE IF c.op = "GetPinnedCount"
                         THEN PinnedCount(items)
                         ELSE IF c.op = "GetRemainingSlots"
                         THEN GetRemainingSlots(items, maxItems)
                         ELSE 0,
              ![t].err = IF c.op = "IsFull"
                         THEN (IF IsFull(items, maxItems) THEN "true"
                               ELSE "false")
                         ELSE IF c.op = "GetItem"
                         THEN GetItem(items, c.id).err
                         ELSE "OK"]
        /\ UNCHANGED <<store, codec, running, lastHash, onLimitWarn, calls>>

\* the limit callback handleText and handleImage start for this result of
\* AddItem
LimitCallbacks(c) ==
    IF ~onLimitWarn.monitor THEN {}
    ELSE IF c.err = "LimitFull" THEN {[target |-> "monitor", remaining |-> 0]}
    ELSE IF c.err = "LimitWarn"
    THEN {[target |-> "monitor", remaining |-> c.rem]}
    ELSE {}

\* handleText and handleImage run the change callback, when one is
\* registered, after an AddItem that added or promoted an item: it
\* refreshes the list with GetAllItems
ChangeCallbackAlways(c) ==
    onLimitWarn.change /\ c.op = "AddItem"
ChangeCallback(c) ==
    onLimitWarn.change /\ c.op = "AddItem" /\ c.err \in {"OK", "LimitWarn"}

\* the call returns to its caller; a monitor loop then handles the result
\* of AddItem (limit callback, change callback) and, after the refresh,
\* waits for the next tick
Return(t) ==
    /\ th[t].pc = "ret"
    /\ th' = [th EXCEPT ![t] =
                 IF t \in Loops /\ ChangeCallback(th[t])
                 THEN Calling("rlock", "GetAllItems", "", NoPayload, <<>>, 0)
                 ELSE Parked(IF t \in Loops THEN "wait" ELSE "idle")]
    /\ calls' = IF t \in Loops THEN calls \cup LimitCallbacks(th[t])
                ELSE calls
    /\ UNCHANGED <<store, codec, mu, running, lastHash, onLimitWarn>>

ConcNext ==
    \/ SetUp
    \/ Start
    \/ Stop
    \/ UiCall
    \/ \E l \in Loops : Tick(l)
    \/ \E t \in Threads : Lock(t)
    \/ \E t \in Threads : FirstWrite(t)
    \/ \E t \in Threads : SecondWrite(t)
    \/ \E t \in Threads : WriteFile(t)
    \/ \E t \in Threads : RLock(t)
    \/ \E t \in Threads : Read(t)
    \/ \E t \in Threads : Return(t)

ConcSpec == ConcInit /\ [][ConcNext]_vars

----------------------------------------------------------------------------
(* The readers of the store.  NewApp registers the change callback on the  *)
(* monitor: every monitor loop refreshes the list with GetAllItems after   *)
(* an AddItem that changed the store, while the control surface refreshes  *)
(* the list or fetches an item.                                            *)

\* NewApp registers the limit callback and the change callback
SetUpRefresh ==
    /\ th["ui"].pc = "setup"
    /\ onLimitWarn' = [onLimitWarn EXCEPT !.monitor = TRUE, !.change = TRUE]
    /\ th' = [th EXCEPT !["ui"] = Parked("idle")]
    /\ UNCHANGED <<store, codec, mu, running, lastHash, calls>>

\* the control surface refreshes the list, copies an item to the
\* clipboard or deletes one
UiRead ==
    /\ th["ui"].pc = "idle"
    /\ \/ th' = [th EXCEPT !["ui"] =
                    Calling("rlock", "GetAllItems", "", NoPayload, <<>>, 0)]
       \/ \E id \in UiGetInputs :
             th' = [th EXCEPT !["ui"] =
                       Calling("rlock", "GetItem", "", NoPayload, id, 0)]
       \/ \E id \in UiGetInputs :
             th' = [th EXCEPT !["ui"] =
                       Calling("lock", "DeleteItem", "", NoPayload, id, 0)]
    /\ UNCHANGED <<store, codec, mu, running, lastHash, onLimitWarn, calls>>

ReadNext ==
    \/ SetUpRefresh
    \/ Start
    \/ Stop
    \/ UiRead
    \/ \E l \in Loops : Tick(l)
    \/ \E t \in Threads : Lock(t)
    \/ \E t \in Threads : FirstWrite(t)
    \/ \E t \in Threads : SecondWrite(t)
    \/ \E t \in Threads : WriteFile(t)
    \/ \E t \in Threads : RLock(t)
    \/ \E t \in Threads : Read(t)
    \/ \E t \in Threads : Return(t)

ReadSpec == ConcInit /\ [][ReadNext]_vars

----------------------------------------------------------------------------
(* The monitor after NewApp has applied the saved limit.  Every tick of a  *)
(* monitor loop is split at its accesses to the fields of the Monitor:     *)
(* the loop reads running and the last hash of the polled kind, and writes *)
(* the hash, in separate steps, as monitorLoop, handleText and handleImage *)
(* do (the hashes are read and written without m.mu).                      *)

\* the session that left the file
PollSession == [n |-> 9, pinned |-> {}]

\* the max_items preference NewApp passes to SetMaxItems
SavedLimits == {MinMaxItems, DefaultMaxItems}

\* what a monitor loop may find on the clipboard at a tick: a text and an
\* image that no earlier session stored
PollInputs == {<<"text", PriorPayload(20)>>, <<"image", PriorPayload(20)>>}

\* main has opened the store and NewApp has called SetMaxItems with the
\* saved limit
PollInit ==
    /\ SysInit
    /\ codec = CodecIdle
    /\ db = "open"
    /\ items = PriorItems(PollSession)
    /\ maxItems \in SavedLimits
    /\ file = SavedFile(items, FileNonce(SessionStart))
    /\ clock = SessionStart
    /\ last = Call("SetMaxItems", "", NoPayload, <<>>, maxItems, "Void", 0)

\* the result of a call of the Monitor that does not reach the store
Returning(op, err) ==
    [Calling("ret", op, "", NoPayload, <<>>, 0) EXCEPT !.err = err]

\* Monitor.Start: an error while running, else running is set and a new
\* monitorLoop goroutine is started (at most two loops exist at a time)
StartCallAlways ==
    /\ th["ui"].pc = "idle"
    /\ \E l \in Loops : th[l].pc = "dead"
    /\ LET l == CHOOSE k \in Loops : th[k].pc = "dead"
       IN  th' = [th EXCEPT ![l] = Parked("wait"),
                            !["ui"] = Returning("Start", "OK")]
    /\ running' = TRUE
    /\ UNCHANGED <<store, codec, mu, lastHash, onLimitWarn, calls>>
StartCall ==
    /\ th["ui"].pc = "idle"
    /\ IF running
       THEN /\ th' = [th EXCEPT !["ui"] = Returning("Start", "AlreadyRunning")]
            /\ UNCHANGED running
       ELSE /\ \E l \in Loops : th[l].pc = "dead"
            /\ LET l == CHOOSE k \in Loops : th[k].pc = "dead"
               IN  th' = [th EXCEPT ![l] = Parked("wait"),
                                    !["ui"] = Returning("Start", "OK")]
            /\ running' = TRUE
    /\ UNCHANGED <<store, codec, mu, lastHash, onLimitWarn, calls>>

\* a ticker event in monitorLoop up to the comparison of the hashes: the
\* loop returns when running is false; else checkClipboard reads the
\* clipboard and handleText or handleImage compares the hash of the content
\* with the last hash of its kind
Poll(l) ==
    /\ th[l].pc = "wait"
    /\ IF ~running
       THEN th' = [th EXCEPT ![l] = Parked("dead")]
       ELSE \E c \in PollInputs :
               th' = [th EXCEPT ![l] =
                         Calling(IF lastHash[c[1]] = Sha256Hex(c[2])
                                 THEN "wait" ELSE "changed",
                                 "", c[1], c[2], <<>>, 0)]
    /\ UNCHANGED <<store, codec, mu, running, lastHash, onLimitWarn, calls>>

\* handleText and handleImage on changed content: the hash is recorded,
\* then AddItem is called
Submit(l) ==
    /\ th[l].pc = "changed"
    /\ lastHash' = [lastHash EXCEPT ![th[l].kind] = Sha256Hex(th[l].payload)]
    /\ th' = [th EXCEPT ![l] = Calling("lock", "AddItem", th[l].kind,
                                        th[l].payload, <<>>, 0)]
    /\ UNCHANGED <<store, codec, mu, running, onLimitWarn, calls>>

PollNext ==
    \/ SetUpRefresh
    \/ StartCall
    \/ Stop
    \/ \E l \in Loops : Poll(l)
    \/ \E l \in Loops : Submit(l)
    \/ \E t \in Threads : Lock(t)
    \/ \E t \in Threads : FirstWrite(t)
    \/ \E t \in Threads : SecondWrite(t)
    \/ \E t \in Threads : WriteFile(t)
    \/ \E t \in Threads : RLock(t)
    \/ \E t \in Threads : Read(t)
    \/ \E t \in Threads : Return(t)

PollSpec == PollInit /\ [][PollNext]_vars

----------------------------------------------------------------------------
(* The codec as a pair of functions: Encrypt and Decrypt on buffers and    *)
(* keys a caller chooses, with one bit of the envelope inverted between    *)
(* the two calls or not.                                                   *)

\* plaintext buffers: the empty one, and one for every padding of the text
CodecPayloads == {Payload(0, 0), Payload(1, 1), Payload(2, 2)}

\* keys: the one the key provider returns, and keys of other lengths
CodecKeys == {HardwareKey} \cup {Key(l) : l \in {0, 16, 24, 31, 32, 33, 64}}

\* positions of the text whose bits are inverted: the first character and
\* the last group of four
FlipPositions(text) ==
    LET len == EncodedLen(SealedLen(text.data))
    IN  {1} \cup (len - 3 .. len)

CodecInit ==
    /\ SysInit
    /\ db = "none"
    /\ file = AbsentFile
    /\ items = <<>>
    /\ maxItems = 0
    /\ clock = SessionStart
    /\ last = Call("", "", NoPayload, <<>>, 0, "", 0)
    /\ \E p \in CodecPayloads, k \in CodecKeys :
          codec = Codec("start", p, k, 0, Base64Encode(NoData), NoFlip,
                        Key(0), "", NoPayload)

\* Encrypt(plain, key): the nonce comes from the random source
EncryptCall ==
    /\ codec.pc = "start"
    /\ \E nonce \in Nonces :
          LET r == Encrypt(codec.plain, codec.key, nonce)
          IN  codec' = IF r.err = "none"
                       THEN [codec EXCEPT !.pc = "sealed", !.nonce = nonce,
                                          !.text = r.text, !.err = "none"]
                       ELSE [codec EXCEPT !.pc = "failed", !.err = r.err]
    /\ UNCHANGED <<store, mu, th, running, lastHash, onLimitWarn, calls>>

\* one bit of the envelope is inverted on its way to Decrypt
FlipEnvelope ==
    /\ codec.pc = "sealed"
    /\ \E pos \in FlipPositions(codec.text), b \in 0 .. 7 :
          \E v \in SymbolsAt(codec.text, pos) :
             codec' = [codec EXCEPT
                          !.pc = "flipped",
                          !.text = FlipBit(codec.text, pos, v, b),
                          !.flip = [pos |-> pos, bit |-> b,
                                    from |-> IF v = -1 THEN PadChar
                                             ELSE Ascii(v),
                                    to |-> FlipBitOf(IF v = -1 THEN PadChar
                                                     ELSE Ascii(v), b)]]
    /\ UNCHANGED <<store, mu, th, running, lastHash, onLimitWarn, calls>>

\* Decrypt(text, dkey): on the envelope as Encrypt returned it with any
\* key, on the envelope with the inverted bit with the key of Encrypt
DecryptCall ==
    /\ codec.pc \in {"sealed", "flipped"}
    /\ \E k \in IF codec.pc = "sealed" THEN CodecKeys ELSE {codec.key} :
          codec' = [codec EXCEPT
                       !.pc = "opened",
                       !.dkey = k,
                       !.err = DecryptErr(codec.text, k),
                       !.out = IF DecryptErr(codec.text, k) = "none"
                               THEN Decrypt(codec.text, k) ELSE NoPayload]
    /\ UNCHANGED <<store, mu, th, running, lastHash, onLimitWarn, calls>>

CodecNext ==
    \/ EncryptCall
    \/ FlipEnvelope
    \/ DecryptCall

CodecSpec == CodecInit /\ [][CodecNext]_vars

----------------------------------------------------------------------------
(* Properties.  In every step that changes the state, last' is the call   *)
(* the step made, with its arguments and its result.                       *)

\* number of items that are not pinned
NonPinned(its) == Cardinality({i \in DOMAIN its : its[i].Pinned = FALSE})

\* an item of this type with the digest of this payload is stored
Stored(its, kind, p) ==
    \E i \in DOMAIN its : its[i].Type = kind /\ its[i].Hash = Sha256Hex(p)

\* the position of that item
StoredAt(its, kind, p) ==
    CHOOSE i \in DOMAIN its : its[i].Type = kind /\ its[i].Hash = Sha256Hex(p)

\* the payload respects AddItem's size constraint
Admissible(p) == p.len <= MaxItemSize

\* the front item was created by the call (its ID is the instant of its
\* Timestamp) or promoted by it (its Timestamp is later than its creation)
FrontCreated(its) == its # <<>> /\ its[1].ID = ItoA(its[1].Timestamp)
FrontPromoted(its) == its # <<>> /\ its[1].ID # ItoA(its[1].Timestamp)

\* C1: in every reachable state the number of non-pinned items is at most
\* maxItems.
C1_NonPinnedWithinMax == NonPinned(items) <= maxItems

\* C2: no two stored items share the same (Hash, Type) pair, and an AddItem
\* of bytes that are stored only under the other type adds a second item
\* and keeps the first.
C2_UniqueHashKind ==
    /\ [](\A i, j \in DOMAIN items :
            (items[i].Hash = items[j].Hash /\ items[i].Type = items[j].Type)
                => i = j)
    /\ [][ (/\ last'.op = "AddItem"
            /\ Admissible(last'.payload)
            /\ ~Stored(items, last'.kind, last'.payload)
            /\ NonPinned(items) < maxItems)
           => /\ Stored(items', last'.kind, last'.payload)
              /\ Len(items') = Len(items) + 1
              /\ \A k \in Kinds :
                    Stored(items, k, last'.payload)
                        => Stored(items', k, last'.payload) ]_vars

C2_Witness ==
    /\ last.op = "AddItem"
    /\ last.res \in {"OK", "LimitWarn"}
    /\ FrontCreated(items)
    /\ items[1].Type = last.kind
    /\ \E j \in DOMAIN items :
          items[j].Hash = items[1].Hash /\ items[j].Type # items[1].Type

\* C3: AddItem of admissible content that matches no stored (hash, type)
\* returns LimitFull exactly when the non-pinned count before the call is
\* >= maxItems, which is exactly when IsFull holds, and then neither the
\* collection nor the file changes.
C3_LimitFullIffFull ==
    [][ (/\ last'.op = "AddItem"
         /\ Admissible(last'.payload)
         /\ ~Stored(items, last'.kind, last'.payload))
        => /\ (last'.res = "LimitFull") <=> (NonPinned(items) >= maxItems)
           /\ IsFull(items, maxItems) <=> (NonPinned(items) >= maxItems)
           /\ last'.res = "LimitFull" => (items' = items /\ file' = file) ]_vars

C3_Witness ==
    /\ last.op = "AddItem"
    /\ last.res = "LimitFull"
    /\ NonPinned(items) = maxItems
    /\ FileHolds(file, items)

\* C4: AddItem of content whose (hash, type) is stored moves that item to
\* the front and gives it the current time as Timestamp; the count, the
\* item's other fields, the other items and their relative order, and
\* maxItems are unchanged.
C4_PromotionFrame ==
    [][ (/\ last'.op = "AddItem"
         /\ Admissible(last'.payload)
         /\ Stored(items, last'.kind, last'.payload))
        => LET i == StoredAt(items, last'.kind, last'.payload)
           IN  /\ Len(items') = Len(items)
               /\ items'[1].ID = items[i].ID
               /\ items'[1].Type = items[i].Type
               /\ items'[1].Hash = items[i].Hash
               /\ items'[1].Content = items[i].Content
               /\ items'[1].Size = items[i].Size
               /\ items'[1].Pinned = items[i].Pinned
               /\ items'[1].Timestamp = clock
               /\ items'[1].Timestamp > items[i].Timestamp
               /\ \A j \in 1 .. Len(items) :
                     /\ j < i => items'[j + 1] = items[j]
                     /\ j > i => items'[j] = items[j]
               /\ maxItems' = maxItems ]_vars

C4_Witness ==
    /\ last.op = "AddItem"
    /\ last.res = "OK"
    /\ FrontPromoted(items)
    /\ items[1].Hash = Sha256Hex(last.payload)
    /\ items[1].Pinned
    /\ Len(items) >= 3

\* C5: when the store is full, AddItem of content that duplicates a stored
\* item promotes it and reports neither LimitFull nor LimitWarn: the result
\* is plain success unless the persist step itself failed.
C5_DuplicateWhenFull ==
    [][ (/\ last'.op = "AddItem"
         /\ Admissible(last'.payload)
         /\ Stored(items, last'.kind, last'.payload)
         /\ NonPinned(items) >= maxItems)
        => /\ last'.res \in {"OK", "PersistError"}
           /\ (last'.res = "OK") <=> FileHolds(file', items')
           /\ Len(items') = Len(items)
           /\ items'[1].Type = last'.kind
           /\ items'[1].Hash = Sha256Hex(last'.payload)
           /\ items'[1].Timestamp = clock ]_vars

C5_Witness ==
    /\ last.op = "AddItem"
    /\ last.res = "OK"
    /\ FrontPromoted(items)
    /\ items[1].Hash = Sha256Hex(last.payload)
    /\ NonPinned(items) >= maxItems

\* C6: an AddItem that succeeds on content with no (hash, type) match adds
\* exactly one item, at the front, with Pinned false, Size the payload
\* length, Hash the payload digest and the payload encrypted as Content;
\* every item stored before keeps its fields and its order.
C6_InsertFrame ==
    [][ (/\ last'.op = "AddItem"
         /\ last'.res \in {"OK", "LimitWarn"}
         /\ ~Stored(items, last'.kind, last'.payload))
        => /\ Len(items') = Len(items) + 1
           /\ items'[1].Pinned = FALSE
           /\ items'[1].Type = last'.kind
           /\ items'[1].Size = last'.payload.len
           /\ items'[1].Hash = Sha256Hex(last'.payload)
           /\ DecryptErr(items'[1].Content, HardwareKey) = "none"
           /\ Decrypt(items'[1].Content, HardwareKey) = last'.payload
           /\ \A j \in 1 .. Len(items) : items'[j + 1] = items[j]
           /\ NonPinned(items) < maxItems ]_vars

C6_Witness ==
    /\ last.op = "AddItem"
    /\ last.res = "OK"
    /\ FrontCreated(items)
    /\ items[1].Hash = Sha256Hex(last.payload)
    /\ items[1].Size = MaxItemSize
    /\ Len(items) >= 10

\* C7: an AddItem that inserts an item returns LimitWarn exactly when
\* remaining = maxItems - (non-pinned count after the insert) is in 0..10,
\* the advisory carries remaining, and the file then holds the collection
\* with the new item; with remaining > 10 it returns plain success (in both
\* cases unless the persist step itself failed).
C7_WarnThreshold ==
    [][ (/\ last'.op = "AddItem"
         /\ Len(items') = Len(items) + 1)
        => LET remaining == maxItems - NonPinned(items')
           IN  IF ~FileHolds(file', items') THEN last'.res = "PersistError"
               ELSE /\ (last'.res = "LimitWarn")
                          <=> (0 <= remaining /\ remaining <= 10)
                    /\ last'.res = "LimitWarn"
                          => (last'.rem = remaining /\ FileHolds(file', items'))
                    /\ remaining > 10 => last'.res = "OK"
                    /\ last'.res \in {"OK", "LimitWarn"} ]_vars

C7_Witness ==
    /\ last.op = "AddItem"
    /\ last.res = "LimitWarn"
    /\ last.rem = 10
    /\ maxItems - NonPinned(items) = 10
    /\ FrontCreated(items)

\* C8: pinned items do not count toward AddItem's capacity check: AddItem of
\* admissible new content is never refused while the non-pinned count is
\* below maxItems, however many items are pinned, and pinning one item of a
\* store holding maxItems non-pinned items brings the count below maxItems.
C8_PinnedExempt ==
    [][ /\ (/\ last'.op = "AddItem"
            /\ Admissible(last'.payload)
            /\ ~Stored(items, last'.kind, last'.payload)
            /\ NonPinned(items) < maxItems)
           => /\ last'.res \in {"OK", "LimitWarn", "PersistError"}
              /\ Stored(items', last'.kind, last'.payload)
              /\ Len(items') = Len(items) + 1
        /\ (/\ last'.op = "TogglePin"
            /\ last'.res # "NotFound"
            /\ NonPinned(items) = maxItems
            /\ \E i \in DOMAIN items :
                  items[i].ID = last'.id /\ ~items[i].Pinned)
           => NonPinned(items') < maxItems ]_vars

C8_Witness ==
    /\ last.op = "AddItem"
    /\ last.res \in {"OK", "LimitWarn"}
    /\ FrontCreated(items)
    /\ NonPinned(items) = maxItems
    /\ Len(items) > maxItems

IsPinnedItem(it) == it.Pinned
IsUnpinnedItem(it) == ~it.Pinned

\* C9: SetMaxItems(n) sets the cap to c = n clamped to [10, 500]; a store of
\* more than c items becomes its pinned items in storage order (only the
\* first c of them when more than c are pinned) followed by its first
\* c - (pinned kept) non-pinned items in storage order; a store of at most c
\* items is unchanged.
C9_Eviction ==
    [][ last'.op = "SetMaxItems"
        => LET c == IF last'.n < 10 THEN 10
                    ELSE IF last'.n > 500 THEN 500 ELSE last'.n
               P == SelectSeq(items, IsPinnedItem)
               U == SelectSeq(items, IsUnpinnedItem)
               keptP == IF Len(P) <= c THEN P ELSE SubSeq(P, 1, c)
               keptU == SubSeq(U, 1, c - Len(keptP))
           IN  /\ maxItems' = c
               /\ Len(items) > c
                     => (items' = keptP \o keptU /\ Len(items') <= c)
               /\ (Len(items) > c /\ Len(P) <= c)
                     => SelectSeq(items', IsPinnedItem) = P
               /\ Len(items) <= c => items' = items ]_vars

\* an eviction that dropped pinned and non-pinned items: of 11 pinned and 4
\* non-pinned items the first 10 pinned are left
C9_Witness ==
    /\ last.op = "SetMaxItems"
    /\ maxItems = 10
    /\ Len(items) = 10
    /\ \A i \in DOMAIN items : items[i].Pinned
    /\ items[1].ID = ItoA(14)
    /\ FindByID(items, ItoA(2)) = 0

MutatingOps ==
    {"AddItem", "TogglePin", "DeleteItem", "ClearAll", "SetMaxItems", "Save"}

\* C10: whenever a mutating operation has returned without an error (plain
\* success, LimitWarn, or the plain return of SetMaxItems), the file holds
\* exactly the in-memory collection.
C10_DurableOnReturn ==
    (last.op \in MutatingOps /\ last.res \in {"OK", "LimitWarn", "Void"})
        => FileHolds(file, items)

\* the file exists and Load can read, decrypt and parse it
Usable(f) ==
    /\ f.state = "written"
    /\ DecryptErr(f.text, HardwareKey) = "none"
    /\ ~UnmarshalFails(Decrypt(f.text, HardwareKey))

\* C13: NewDatabase returns an empty store without error when no file
\* exists, and returns an error and no store when the file exists but cannot
\* be read, decrypted or parsed; an empty store is returned only for no file
\* or for a file that holds the empty collection.
C13_NoSilentFallback ==
    [][ last'.op = "NewDatabase"
        => /\ file.state = "absent"
                => (db' = "open" /\ items' = <<>> /\ last'.res = "OK")
           /\ (file.state # "absent" /\ ~Usable(file))
                => (db' = "nil" /\ last'.res # "OK")
           /\ Usable(file)
                => /\ db' = "open"
                   /\ last'.res = "OK"
                   /\ items' = Unmarshal(Decrypt(file.text, HardwareKey))
           /\ (db' = "open" /\ items' = <<>>)
                => \/ file.state = "absent"
                   \/ /\ Usable(file)
                      /\ Decrypt(file.text, HardwareKey).elems = <<>> ]_vars

\* construction failed on a file whose seal does not verify
C13_Witness ==
    /\ last.op = "NewDatabase"
    /\ last.res = "LoadError"
    /\ db = "nil"
    /\ file.state = "written"
    /\ DecryptErr(file.text, HardwareKey) = "auth"

\* results of a call that returned before its persist step
NoSaveResults == {"SizeExceeded", "LimitFull", "NotFound"}

\* C14: a mutating operation that reached its persist step and left the file
\* not holding the in-memory collection returns the persist error to its
\* caller; this holds for AddItem, TogglePin, DeleteItem, ClearAll,
\* SetMaxItems and Save.
C14_PersistFailureReturned ==
    [][ (/\ last'.op \in MutatingOps
         /\ last'.res \notin NoSaveResults
         /\ ~FileHolds(file', items'))
        => last'.res = "PersistError" ]_vars

\* C15: on an open store IsFull, GetRemainingSlots and IsNearLimit are the
\* functions of the non-pinned count and maxItems: IsFull iff nonPinned >=
\* maxItems, GetRemainingSlots = max(0, maxItems - nonPinned), IsNearLimit
\* iff maxItems - nonPinned <= 10, and GetRemainingSlots = 0 exactly when
\* IsFull.
C15_CapacityFromNonPinned ==
    db = "open"
        => LET free == maxItems - NonPinned(items)
           IN  /\ IsFull(items, maxItems) <=> (NonPinned(items) >= maxItems)
               /\ GetRemainingSlots(items, maxItems)
                      = (IF free < 0 THEN 0 ELSE free)
               /\ IsNearLimit(items, maxItems) <=> (free <= 10)
               /\ (GetRemainingSlots(items, maxItems) = 0)
                      <=> IsFull(items, maxItems)

\* the position of the item with this ID
IndexOfID(its, id) == CHOOSE i \in DOMAIN its : its[i].ID = id

HasID(its, id) == \E i \in DOMAIN its : its[i].ID = id

\* C18: TogglePin(id) on a stored id flips the Pinned flag of that item and
\* changes nothing else (position, other fields, other items, maxItems), and
\* flipping the flag of the result once more gives the collection back; on
\* an id that is not stored it returns NotFound and leaves memory and file
\* as they were.
C18_TogglePinFrame ==
    [][ last'.op = "TogglePin"
        => IF HasID(items, last'.id)
           THEN LET i == IndexOfID(items, last'.id)
                IN  /\ last'.res \in {"OK", "PersistError"}
                    /\ Len(items') = Len(items)
                    /\ items'[i].Pinned = ~items[i].Pinned
                    /\ [items'[i] EXCEPT !.Pinned = items[i].Pinned] = items[i]
                    /\ \A j \in DOMAIN items : j # i => items'[j] = items[j]
                    /\ [items' EXCEPT ![i].Pinned = ~items'[i].Pinned] = items
                    /\ maxItems' = maxItems
           ELSE /\ last'.res = "NotFound"
                /\ items' = items
                /\ file' = file
                /\ maxItems' = maxItems ]_vars

\* the collection of the earlier session is back after TogglePin calls: an
\* even number of them, at least two
C18_Witness ==
    /\ last.op = "TogglePin"
    /\ last.res = "OK"
    /\ last.id = ItoA(3)
    /\ items = PriorItems([n |-> 15, pinned |-> (2 .. 14) \ {7, 11}])
    /\ FileHolds(file, items)

\* C19: DeleteItem(id) on a stored id removes that one item; the items
\* before it and after it keep their fields and their order; on an id that
\* is not stored it returns NotFound and leaves memory and file as they
\* were.
C19_DeleteFrame ==
    [][ last'.op = "DeleteItem"
        => IF HasID(items, last'.id)
           THEN LET i == IndexOfID(items, last'.id)
                IN  /\ last'.res \in {"OK", "PersistError"}
                    /\ Len(items') = Len(items) - 1
                    /\ ~HasID(items', last'.id)
                    /\ \A j \in DOMAIN items :
                          /\ j < i => items'[j] = items[j]
                          /\ j > i => items'[j - 1] = items[j]
                    /\ maxItems' = maxItems
           ELSE /\ last'.res = "NotFound"
                /\ items' = items
                /\ file' = file
                /\ maxItems' = maxItems ]_vars

\* the first item of the session was deleted from below a newer one
C19_Witness ==
    /\ last.op = "DeleteItem"
    /\ last.res = "OK"
    /\ ~HasID(items, ItoA(SessionStart))
    /\ Len(items) >= 10
    /\ items[1].ID = ItoA(SessionStart + 1)
    /\ FileHolds(file, items)

\* C20: ClearAll leaves no item, pinned or not, keeps maxItems, and when it
\* returns success the file holds the empty collection; the AddItem that
\* follows creates a new item whatever content was stored before.
C20_ClearAll ==
    [][ /\ last'.op = "ClearAll"
           => /\ items' = <<>>
              /\ maxItems' = maxItems
              /\ last'.res \in {"OK", "PersistError"}
              /\ last'.res = "OK" => FileHolds(file', <<>>)
        /\ (/\ last.op = "ClearAll"
            /\ last'.op = "AddItem"
            /\ Admissible(last'.payload))
           => /\ Len(items') = 1
              /\ items'[1].ID = ItoA(clock)
              /\ items'[1].Timestamp = clock
              /\ items'[1].Type = last'.kind
              /\ items'[1].Hash = Sha256Hex(last'.payload)
              /\ items'[1].Pinned = FALSE
              /\ last'.res \in {"OK", "LimitWarn", "PersistError"} ]_vars

\* ClearAll emptied a store that held pinned items and the content the
\* session adds again; its save failed, so the file still shows them
C20_Witness ==
    /\ last.op = "ClearAll"
    /\ items = <<>>
    /\ file.state = "written"
    /\ LoadErr(file) = "none"
    /\ PinnedCount(LoadItems(file)) > 0
    /\ Stored(LoadItems(file), "text", PriorPayload(3))

\* C22: destruction of an item is final: once DeleteItem has removed an ID,
\* no later state of the store holds an item with that ID, and an AddItem of
\* the same content that follows creates an item with an ID the store has
\* not used (stated over the calls that follow the DeleteItem directly).
C22_NoResurrection ==
    [][ (/\ last.op = "DeleteItem"
         /\ last.res \in {"OK", "PersistError"}
         /\ ~HasID(items, last.id))
        => ~HasID(items', last.id) ]_vars

\* C23: in every reachable state no two stored items share an ID, so that
\* an id given to GetItem, TogglePin or DeleteItem addresses at most one
\* item.
C23_UniqueIDs ==
    /\ \A i, j \in DOMAIN items : items[i].ID = items[j].ID => i = j
    /\ \A i \in DOMAIN items :
          Cardinality({j \in DOMAIN items : items[j].ID = items[i].ID}) = 1

\* C24: in every reachable state of an open store the storage order is by
\* recency, newest first: the Timestamp (CreatedAt) of the items does not
\* increase from the front of the collection to the back.
C24_NewestFirst ==
    db = "open"
        => \A i, j \in DOMAIN items :
               i < j => items[i].Timestamp >= items[j].Timestamp

\* C25: the cap of an open store is within 10..500 in every reachable
\* state: NewDatabase sets it to 100, SetMaxItems(n) sets it to n clamped
\* into 10..500 for every integer n and returns nothing (it never rejects
\* the call), and no other operation changes it.
C25_MaxItemsRange ==
    /\ [](db = "open" => (10 <= maxItems /\ maxItems <= 500))
    /\ [][ /\ (last'.op = "NewDatabase" /\ db' = "open") => maxItems' = 100
           /\ last'.op = "SetMaxItems"
                => /\ last'.n < 10 => maxItems' = 10
                   /\ last'.n > 500 => maxItems' = 500
                   /\ (10 <= last'.n /\ last'.n <= 500) => maxItems' = last'.n
                   /\ last'.res = "Void"
           /\ last'.op \notin {"NewDatabase", "SetMaxItems"}
                => maxItems' = maxItems ]_vars

\* SetMaxItems(1000) left the cap of a store that holds items at 500
C25_Witness ==
    /\ last.op = "SetMaxItems"
    /\ last.n = 1000
    /\ maxItems = 500
    /\ items # <<>>

\* C26: AddItem of content longer than MaxItemSize returns SizeExceeded and
\* changes neither the collection nor the file nor maxItems; content of
\* exactly MaxItemSize bytes is not refused for its size, and nothing
\* shorter is.
C26_SizeExceeded ==
    [][ last'.op = "AddItem"
        => /\ last'.payload.len > MaxItemSize
                => /\ last'.res = "SizeExceeded"
                   /\ items' = items
                   /\ file' = file
                   /\ maxItems' = maxItems
           /\ last'.payload.len <= MaxItemSize
                => last'.res # "SizeExceeded" ]_vars

\* an oversized AddItem was refused on a store that holds items and whose
\* file is up to date
C26_Witness ==
    /\ last.op = "AddItem"
    /\ last.res = "SizeExceeded"
    /\ last.payload.len = MaxItemSize + 1
    /\ Len(items) >= 10
    /\ FileHolds(file, items)

----------------------------------------------------------------------------
(* Properties of the store under concurrent callers (ConcSpec) *)

\* goroutines inside a method between Lock and Unlock, those of them that
\* have written to db and not yet returned, and those between RLock and
\* RUnlock
Writing == {t \in Threads : th[t].pc \in {"body", "body2", "save"}}
MidMutation == {t \in Threads : th[t].pc \in {"body2", "save"}}
Reading == {t \in Threads : th[t].pc = "read"}

\* what the mutating call c does when it runs alone on the fields its and
\* max: the fields after it and the results it may return
AloneEffect(c, its, max) ==
    LET hash == Sha256Hex(c.payload)
        dup == {i \in DOMAIN its : its[i].Hash = hash /\ its[i].Type = c.kind}
        free == max - NonPinned(its)
        cap == IF c.n < 10 THEN 10 ELSE IF c.n > 500 THEN 500 ELSE c.n
    IN  IF c.op = "AddItem"
        THEN IF c.payload.len > MaxItemSize
             THEN [items |-> its, maxItems |-> max, res |-> {"SizeExceeded"}]
             ELSE IF dup # {}
             THEN [items |-> PromoteItem(its, Min(dup), c.now),
                   maxItems |-> max, res |-> {"OK", "PersistError"}]
             ELSE IF free <= 0
             THEN [items |-> its, maxItems |-> max, res |-> {"LimitFull"}]
             ELSE [items |-> InsertItem(its, c.kind, c.payload, c.now,
                                        ItemNonce(c.now)),
                   maxItems |-> max,
                   res |-> {IF free - 1 <= 10 THEN "LimitWarn" ELSE "OK",
                            "PersistError"}]
        ELSE IF c.op = "SetMaxItems"
        THEN [items |-> enforceLimit(its, cap), maxItems |-> cap,
              res |-> {"Void"}]
        ELSE IF c.op \in {"TogglePin", "DeleteItem"}
        THEN IF \A i \in DOMAIN its : its[i].ID # c.id
             THEN [items |-> its, maxItems |-> max, res |-> {"NotFound"}]
             ELSE LET i == Min({k \in DOMAIN its : its[k].ID = c.id})
                  IN  [items |-> IF c.op = "TogglePin"
                                 THEN [its EXCEPT ![i].Pinned = ~its[i].Pinned]
                                 ELSE SubSeq(its, 1, i - 1)
                                          \o SubSeq(its, i + 1, Len(its)),
                       maxItems |-> max, res |-> {"OK", "PersistError"}]
        ELSE [items |-> IF c.op = "ClearAll" THEN <<>> ELSE its,
              maxItems |-> max, res |-> {"OK", "PersistError"}]

\* what a reading call returns when it runs alone on the fields its and max
AloneAnswer(c, its, max) ==
    [list |-> IF c.op = "GetAllItems"
              THEN SelectSeq(its, IsPinnedItem) \o SelectSeq(its, IsUnpinnedItem)
              ELSE <<>>,
     rem |-> IF c.op = "GetItemCount" THEN Len(its)
             ELSE IF c.op = "GetPinnedCount" THEN Len(its) - NonPinned(its)
             ELSE IF c.op = "GetRemainingSlots"
             THEN (IF max - Len(its) < 0 THEN 0 ELSE max - Len(its))
             ELSE 0,
     err |-> IF c.op = "IsFull"
             THEN (IF NonPinned(its) >= max THEN "true" ELSE "false")
             ELSE "OK"]

\* C11: under db.mu every call takes effect atomically.  At most one
\* goroutine is inside a mutating method and none is inside a reading one
\* meanwhile, so no reader sees the fields between two writes of a mutation
\* and no two persist steps overlap; only the holder of the lock changes
\* the fields and the file; a mutating call leaves the fields, and returns
\* a result, as if it had run alone on the fields it found when it took
\* the lock, and a reading call returns what it would return alone on the
\* fields it found: the calls are equivalent to their sequence in lock
\* order.
C11_AtomicUnderLock ==
    /\ [](Cardinality(Writing) <= 1)
    /\ [](Reading # {} => (Writing = {} /\ MidMutation = {}))
    /\ [](Cardinality({t \in Threads : th[t].pc = "save"}) <= 1)
    /\ [][ <<items', maxItems', file'>> # <<items, maxItems, file>>
           => /\ mu.writer \in Threads
              /\ th'[mu.writer] # th[mu.writer]
              /\ \A t \in Threads \ {mu.writer} : th'[t] = th[t] ]_vars
    /\ [][ \A t \in Threads :
             (th[t].pc \in {"body", "body2", "save"} /\ th'[t].pc = "ret")
             => LET c == th'[t]
                    e == AloneEffect(c, c.pre.items, c.pre.maxItems)
                IN  /\ items' = e.items
                    /\ maxItems' = e.maxItems
                    /\ c.err \in e.res
                    /\ c.err \in {"OK", "LimitWarn"}
                          => FileHolds(file', items') ]_vars
    /\ [][ \A t \in Threads :
             (th[t].pc = "read" /\ th'[t].pc = "ret")
             => LET c == th'[t]
                    a == AloneAnswer(c, c.pre.items, c.pre.maxItems)
                IN  /\ c.list = a.list
                    /\ c.rem = a.rem
                    /\ c.err = a.err
                    /\ <<items', maxItems', file'>>
                          = <<items, maxItems, file>> ]_vars

\* a monitor loop is between the two writes of a promotion while the other
\* loop waits for the lock and the control surface waits to read
C11_Witness ==
    /\ \E w \in Loops : th[w].pc = "body2" /\ th[w].op = "AddItem"
    /\ \E x \in Loops : th[x].pc = "lock"
    /\ th["ui"].pc = "rlock"

\* C12: at most one monitor loop is active and at most one AddItem call of
\* the monitor is outstanding, whatever the order of Start, Stop and ticks.
C12_OnePollerOneCall ==
    /\ Cardinality({l \in Loops : th[l].pc # "dead"}) <= 1
    /\ Cardinality({l \in Loops : th[l].op = "AddItem"}) <= 1

\* C16: when an AddItem that left 0..10 free slots has returned and its
\* caller has handled the result, the callback registered on the store with
\* SetOnLimitWarn has been invoked with the number of remaining slots.
C16_StoreCallbackInvoked ==
    [][ \A t \in Threads :
          (/\ th[t].pc = "ret"
           /\ th'[t].pc # "ret"
           /\ th[t].op = "AddItem"
           /\ th[t].err = "LimitWarn"
           /\ onLimitWarn.db)
          => [target |-> "db", remaining |-> th[t].rem] \in calls' ]_vars

\* the position of an item in the storage order
PosOf(its, it) == CHOOSE i \in DOMAIN its : its[i] = it

\* r holds the items its in display order
DisplayOrder(r, its) ==
    /\ Len(r) = Len(its)
    /\ \A i \in DOMAIN its : \E k \in DOMAIN r : r[k] = its[i]
    /\ \A k \in DOMAIN r : \E i \in DOMAIN its : its[i] = r[k]
    /\ \A a, b \in DOMAIN r :
          a < b => /\ r[a].Pinned \/ ~r[b].Pinned
                   /\ r[a].Pinned = r[b].Pinned
                         => PosOf(its, r[a]) < PosOf(its, r[b])

----------------------------------------------------------------------------
(* Properties of the readers of the store (ReadSpec) *)

\* the bytes sealed in the Content of an item
Plain(it) == Decrypt(it.Content, HardwareKey)

NoMutator == \A u \in Threads : th[u].pc \notin {"lock", "body", "body2", "save"}

\* C27: concurrent GetAllItems calls do not block each other: while no
\* mutation runs or waits, a caller that asks for the shared lock gets it
\* however many readers hold it, and a caller that holds it can finish; and
\* calls with no mutation between them return identical snapshots: a call
\* returns the list that every earlier call returned on the same fields.
C27_ConcurrentReaders ==
    /\ [](\A t \in Threads :
            (th[t].pc = "rlock" /\ NoMutator) => ENABLED RLock(t))
    /\ [](\A t \in Threads : th[t].pc = "read" => ENABLED Read(t))
    /\ [][ \A t, u \in Threads :
             (/\ t # u
              /\ th[t].pc = "read"
              /\ th'[t].pc = "ret"
              /\ th[t].op = "GetAllItems"
              /\ th[u].op = "GetAllItems"
              /\ th[u].pc = "ret"
              /\ th[u].pre.items = items)
             => th'[t].list = th[u].list ]_vars

\* three goroutines hold the shared lock inside GetAllItems at once
C27_Witness ==
    /\ mu.readers = Threads
    /\ \A t \in Threads : th[t].pc = "read" /\ th[t].op = "GetAllItems"

----------------------------------------------------------------------------
(* Properties of the codec (CodecSpec) *)

C29_TamperDetected ==
    [][ (codec.pc = "flipped" /\ codec'.pc = "opened")
        => /\ codec'.err # "none"
           /\ codec'.err = "auth" ]_vars

\* C30: Encrypt and Decrypt accept a key only if it has exactly 32 bytes,
\* the length the key provider produces: Encrypt succeeds exactly for
\* such a key and Decrypt fails for every key of another length.
C30_KeyLength ==
    [][ /\ (codec.pc = "start" /\ codec'.pc # "start")
           => (codec'.pc = "sealed" <=> codec.key.len = 32)
        /\ (codec'.pc = "opened" /\ codec.pc # "opened"
               /\ codec'.dkey.len # 32)
           => codec'.err # "none" ]_vars

----------------------------------------------------------------------------
(* Further properties of the store (Spec) *)

\* the text is what Encrypt returns for the plaintext under the key of the
\* store and some nonce
IsEnvelopeOf(text, plaintext) ==
    \E nonce \in Nonces : text = Encrypt(plaintext, HardwareKey, nonce).text

\* C31: whatever a step of the store writes to the file is the envelope
\* Encrypt returns for the serialized collection (or nothing at all, when
\* the write failed after truncating the file), and the Content of every
\* item serialized in it is itself an envelope of Encrypt around the bytes
\* whose hash the item records.
C31_OnlyCiphertext ==
    [][ file' # file
        => \/ file' = TruncatedFile
           \/ /\ file'.state = "written"
              /\ IsEnvelopeOf(file'.text, Marshal(items'))
              /\ \A i \in DOMAIN items' :
                    /\ IsEnvelopeOf(items'[i].Content, Plain(items'[i]))
                    /\ Sha256Hex(Plain(items'[i])) = items'[i].Hash ]_vars

\* AddItem created an item and the file written holds it
C31_Witness ==
    /\ last.op = "AddItem"
    /\ last.res \in {"OK", "LimitWarn"}
    /\ FrontCreated(items)
    /\ Plain(items[1]) = last.payload
    /\ IsEnvelopeOf(items[1].Content, last.payload)
    /\ IsEnvelopeOf(file.text, Marshal(items))

\* the items of its that are not pinned and whose ID is, or is not, among
\* the IDs of kept
NonPinnedKept(its, kept) ==
    {i \in DOMAIN its : ~its[i].Pinned /\ HasID(kept, its[i].ID)}
NonPinnedDropped(its, kept) ==
    {i \in DOMAIN its : ~its[i].Pinned /\ ~HasID(kept, its[i].ID)}

\* C32: an eviction keeps the newest non-pinned items: every non-pinned
\* item that a SetMaxItems call drops has a Timestamp no later than that of
\* every non-pinned item the same call retains.
C32_EvictionKeepsNewest ==
    [][ last'.op = "SetMaxItems"
        => \A d \in NonPinnedDropped(items, items') :
              \A r \in NonPinnedKept(items, items') :
                 items[d].Timestamp <= items[r].Timestamp ]_vars

\* C34: AddItem never destroys an existing item: after an AddItem call,
\* whether it inserted, promoted or refused, every ID stored before the
\* call is still stored; among the calls that take no ID to remove and do
\* not clear the store, only SetMaxItems removes items.
C34_AddItemKeepsItems ==
    [][ /\ last'.op = "AddItem"
           => /\ \A i \in DOMAIN items : HasID(items', items[i].ID)
              /\ Len(items') >= Len(items)
        /\ (\E i \in DOMAIN items : ~HasID(items', items[i].ID))
           => last'.op \in {"SetMaxItems", "DeleteItem", "ClearAll"} ]_vars

\* AddItem inserted an item into a store that held maxItems items or more
\* (pinned ones among them), and all of them are still there
C34_Witness ==
    /\ last.op = "AddItem"
    /\ last.res \in {"OK", "LimitWarn"}
    /\ FrontCreated(items)
    /\ Len(items) > maxItems
    /\ \A k \in {2, 14, 15} : HasID(items, ItoA(k))

\* C35: SetMaxItems(n) removes no item when the clamped n is greater than or
\* equal to the current maxItems; re-applying the current cap leaves the
\* collection as it was.
C35_NoEvictionOnRaise ==
    [][ (last'.op = "SetMaxItems" /\ ClampMax(last'.n) >= maxItems)
        => /\ \A i \in DOMAIN items : HasID(items', items[i].ID)
           /\ (ClampMax(last'.n) = maxItems => items' = items) ]_vars

\* C36: when the persist step of a mutating operation fails, the collection
\* in memory is the same as before the call: for AddItem, TogglePin,
\* DeleteItem and ClearAll, which return the failure, and for SetMaxItems,
\* which leaves the file holding the collection of before the call.
C36_FailedPersistKeepsMemory ==
    [][ /\ (/\ last'.op \in {"AddItem", "TogglePin", "DeleteItem", "ClearAll"}
            /\ last'.res = "PersistError")
           => items' = items
        /\ (/\ last'.op = "SetMaxItems"
            /\ InSync(file, items)
            /\ file' \in {file, TruncatedFile})
           => items' = items ]_vars

----------------------------------------------------------------------------
(* Properties of the monitor (PollSpec) *)

\* a monitor loop takes the result of the call it had outstanding
Returns(l, op) == th[l].pc = "ret" /\ th'[l].pc # "ret" /\ th[l].op = op

\* C33: LimitFull and LimitWarning do not stop the poller.  When AddItem
\* returns LimitFull to a monitor loop, the loop waits for its next tick
\* without running the change callback; when AddItem returns success or
\* LimitWarning, the loop runs the change callback (the refresh of the
\* list) and then waits for its next tick; a loop ends only at a tick at
\* which running is false.
C33_LimitsNotFatal ==
    [][ \A l \in Loops :
          /\ (Returns(l, "AddItem") /\ th[l].err = "LimitFull")
             => th'[l] = Parked("wait")
          /\ (Returns(l, "AddItem") /\ th[l].err \in {"OK", "LimitWarn"})
             => (th'[l].pc = "rlock" /\ th'[l].op = "GetAllItems")
          /\ Returns(l, "GetAllItems") => th'[l] = Parked("wait")
          /\ (th[l].pc # "dead" /\ th'[l].pc = "dead")
             => (th[l].pc = "wait" /\ ~running) ]_vars

\* one polled content was stored with a warning, the other was refused
\* with LimitFull, and a loop still runs and waits for its next tick
C33_Witness ==
    /\ running
    /\ maxItems = MinMaxItems
    /\ NonPinned(items) = maxItems
    /\ \A k \in Kinds : lastHash[k] = Sha256Hex(PriorPayload(20))
    /\ \E k \in Kinds : ~Stored(items, k, PriorPayload(20))
    /\ \E k \in Kinds : Stored(items, k, PriorPayload(20))
    /\ \A l \in Loops : th[l].pc \in {"wait", "dead"}
    /\ \E l \in Loops : th[l].pc = "wait"

\* C37: the monitor invokes the limit callback with argument 0 only when
\* AddItem refused the insertion with LimitFull; when the insertion
\* happened and AddItem returned LimitWarning, the argument is strictly
\* positive.
C37_ZeroMeansFull ==
    [][ \A l \in Loops :
          Returns(l, "AddItem")
          => \A c \in LimitCallbacks(th[l]) :
                /\ c.remaining = 0 => th[l].err = "LimitFull"
                /\ th[l].err = "LimitWarn" => c.remaining > 0 ]_vars

\* C38: Monitor.Start on a running monitor returns an error, starts no
\* loop and leaves running set.  A loop whose tick finds running false (as
\* after Monitor.Stop with no later Start) ends at that tick, and a loop
\* that has ended issues no AddItem: it neither polls nor calls the store.
C38_StartStop ==
    [][ /\ (th["ui"].pc = "idle" /\ th'["ui"].op = "Start" /\ running)
           => /\ th'["ui"].err = "AlreadyRunning"
              /\ running'
              /\ \A l \in Loops : th'[l] = th[l]
        /\ (th["ui"].pc = "idle" /\ th'["ui"].op = "Start" /\ ~running)
           => /\ th'["ui"].err = "OK"
              /\ running'
              /\ Cardinality({l \in Loops : th'[l] # th[l]}) = 1
        /\ \A l \in Loops :
              /\ (th[l].pc = "wait" /\ ~running /\ th'[l] # th[l])
                 => th'[l] = Parked("dead")
              /\ (th[l].pc = "dead" /\ th'[l] # th[l])
                 => (th'[l] = Parked("wait") /\ th'["ui"].op = "Start") ]_vars

\* Start was called on a running monitor and returned the error, with one
\* loop alive
C38_Witness ==
    /\ th["ui"].pc = "ret"
    /\ th["ui"].op = "Start"
    /\ th["ui"].err = "AlreadyRunning"
    /\ running
    /\ Cardinality({l \in Loops : th[l].pc # "dead"}) = 1

\* the content a loop has polled is submitted: the loop goes from the
\* comparison of the hashes to its call of AddItem
Submits(l) == th[l].pc = "changed" /\ th'[l].pc = "lock"

\* C39: the monitor submits polled content of a kind to AddItem exactly
\* when its hash differs from the last hash recorded for that kind, and it
\* records the hash before AddItem runs; the hash of the other kind is not
\* touched.  Content that stays the same over consecutive polls is
\* therefore submitted at most once, whatever AddItem returned.
C39_SubmitOnChange ==
    [][ \A l \in Loops :
          /\ Submits(l)
             => /\ lastHash[th[l].kind] # Sha256Hex(th[l].payload)
                /\ th'[l].op = "AddItem"
                /\ th'[l].kind = th[l].kind
                /\ th'[l].payload = th[l].payload
                /\ lastHash'[th[l].kind] = Sha256Hex(th[l].payload)
                /\ \A k \in Kinds \ {th[l].kind} : lastHash'[k] = lastHash[k]
          /\ (th[l].pc = "wait" /\ th'[l].pc = "wait" /\ th'[l] # th[l])
             => /\ lastHash[th'[l].kind] = Sha256Hex(th'[l].payload)
                /\ lastHash' = lastHash
          /\ (th[l].pc = "wait" /\ th'[l].pc = "changed")
             => lastHash[th'[l].kind] # Sha256Hex(th'[l].payload) ]_vars

====
